---- MODULE Spec2Model ----
(***************************************************************************)
(* State-machine model of sotd_bot.py: the Song-of-the-Day GroupMe bot.    *)
(* The queue lives in QUEUE_FILE; every handler reloads it, mutates an     *)
(* in-memory copy, and writes it back through QUEUE_FILE.with_suffix(tmp). *)
(* Webhook handlers run on Flask's request threads, the daily ping on the  *)
(* scheduler thread; the code takes no lock.                               *)
(***************************************************************************)
EXTENDS Integers, Sequences, FiniteSets, TLC

\* ------------------------------------------------------------------ bounds
MaxDay == 1          \* calendar days 0..MaxDay are modelled
MaxRequests == 3     \* webhook calls accepted in one behaviour
ChunkLen == 2        \* tokens the buffered writer hands to one write(2)

Users == {"u1", "u2"}
\* The display names a user's messages may carry (u1 renames itself).
NamesOf(u) == IF u = "u1" THEN {"Ann", "Annie"} ELSE {"Bob"}
Workers == {"w1", "w2"}
Sched == "sched"
Threads == Workers \cup {Sched}

\* Wall-clock time in half-days: 2*d is day d before PING_AT, 2*d+1 is day d at
\* or after PING_AT.
MaxNow == 2 * MaxDay + 1
AtOrAfterPing(t) == t % 2 = 1

VARIABLES
  queue_file,   \* QUEUE_FILE: [exists, data]
  tmp_file,     \* QUEUE_FILE.with_suffix(".tmp"): [exists, data]
  th,           \* per thread: position in its handler and the handler's locals
  now,          \* wall clock
  next_run,     \* schedule job's next_run
  fires,        \* history: _daily_ping invocations on the current calendar day,
                \* before PING_AT (pre) and at or after it (post)
  nreq,         \* webhook calls accepted so far
  hist          \* history: signup/signout calls that ran to their end (SpecCmds);
                \* announcements, rotations and signouts (SpecRotation)

vars == <<queue_file, tmp_file, th, now, next_run, fires, nreq, hist>>

\* ------------------------------------------------------------ JSON content
\* A file's data is a sequence of tokens. json.dump(q, fp, indent=2) emits
\* "[", one object per entry, "]"; a hole left by a write past the end is nul.
Tok(k, u, n) == [kind |-> k, user_id |-> u, name |-> n]
OpenTok == Tok("[", "", "")
CloseTok == Tok("]", "", "")
NulTok == Tok("nul", "", "")
ObjTok(e) == Tok("obj", e.user_id, e.name)
Entry(u, n) == [user_id |-> u, name |-> n]

Missing == [exists |-> FALSE, data |-> <<>>]
File(d) == [exists |-> TRUE, data |-> d]

json_dump(q) == <<OpenTok>> \o [i \in 1 .. Len(q) |-> ObjTok(q[i])] \o <<CloseTok>>

WellFormed(d) ==
  /\ Len(d) >= 2
  /\ d[1] = OpenTok
  /\ d[Len(d)] = CloseTok
  /\ \A i \in 2 .. Len(d) - 1 : d[i].kind = "obj"

json_load(d) == [i \in 1 .. Len(d) - 2 |-> Entry(d[i + 1].user_id, d[i + 1].name)]

\* write(2) of a chunk at a file offset: overwrite in place and extend, leaving
\* a hole when the offset is past the end.
WriteAt(d, off, chunk) ==
  LET n == IF Len(d) > off + Len(chunk) THEN Len(d) ELSE off + Len(chunk)
  IN [i \in 1 .. n |->
       IF i > off /\ i <= off + Len(chunk) THEN chunk[i - off]
       ELSE IF i <= Len(d) THEN d[i]
       ELSE NulTok]

\* The next chunk the buffered writer flushes, from offset off of data d.
ChunkAt(d, off) ==
  LET n == IF Len(d) - off > ChunkLen THEN ChunkLen ELSE Len(d) - off
  IN [i \in 1 .. n |-> d[off + i]]

\* --------------------------------------------------------- queue operations
Present(q, u) == \E i \in 1 .. Len(q) : q[i].user_id = u

\* Mutant of signup_q: the new entry goes to the front.
signup_q_front(q, u, n) == <<Entry(u, n)>> \o q

\* _signup, line 95: q.append({"user_id": user_id, "name": name})
signup_q(q, u, n) == Append(q, Entry(u, n))

\* Mutant of signout_q: the filter keeps the entries it should drop.
signout_q_inverted(q, u) == SelectSeq(q, LAMBDA e : e.user_id = u)

\* _signout, line 102: [e for e in q if e["user_id"] != user_id]
signout_q(q, u) == SelectSeq(q, LAMBDA e : e.user_id # u)

\* Mutant of daily_ping_q: the popped entry is not put back.
daily_ping_q_dropped(q) == Tail(q)

\* _daily_ping, lines 137 and 142: current = q.pop(0); q.append(current)
daily_ping_q(q) == Append(Tail(q), Head(q))

\* ----------------------------------------------------------------- messages
NoMsg == [kind |-> "none", names |-> <<>>, mention |-> ""]
Msg(k, ns, m) == [kind |-> k, names |-> ns, mention |-> m]
\* Mutant of Listing: the names back to front.
Listing_reversed(q) == [i \in 1 .. Len(q) |-> q[Len(q) + 1 - i].name]

\* _show_queue, line 115: the names of the entries, in queue order.
Listing(q) == [i \in 1 .. Len(q) |-> q[i].name]

\* The characters of a display name.
NameChars(n) ==
  CASE n = "Ann" -> <<"A", "n", "n">>
    [] n = "Annie" -> <<"A", "n", "n", "i", "e">>
    [] n = "Bob" -> <<"B", "o", "b">>
    [] OTHER -> <<>>

\* _daily_ping, line 139: the text after "@name" ("<note>" is the one emoji).
TurnTail ==
  <<" ", "i", "t", "'", "s", " ", "y", "o", "u", "r", " ", "t", "u", "r", "n", " ",
    "t", "o", " ", "s", "h", "a", "r", "e", " ", "t", "o", "d", "a", "y", "'", "s", " ",
    "s", "o", "n", "g", "!", " ", "<note>">>

\* _daily_ping, line 139: f"@{current['name']} it's your turn ..."
TurnText(current) == <<"@">> \o NameChars(current.name) \o TurnTail

\* Mutant of find: the last occurrence (str.rfind).
RECURSIVE rfind_from(_, _, _)
rfind_from(text, tag, o) ==
  IF o < 0 THEN -1
  ELSE IF o + Len(tag) <= Len(text) /\ SubSeq(text, o + 1, o + Len(tag)) = tag THEN o
  ELSE rfind_from(text, tag, o - 1)

rfind(text, tag) == rfind_from(text, tag, Len(text))

\* str.find: the lowest 0-based offset at which tag occurs in text, -1 if none.
RECURSIVE find_from(_, _, _)
find_from(text, tag, o) ==
  IF o + Len(tag) > Len(text) THEN -1
  ELSE IF SubSeq(text, o + 1, o + Len(tag)) = tag THEN o
  ELSE find_from(text, tag, o + 1)

find(text, tag) == find_from(text, tag, 0)

\* _post's mention parameter: an entry of the queue, or None.
NoMention == [user_id |-> "", name |-> ""]
NoAtt == [user_ids |-> <<>>, loci |-> <<>>]

\* _post, lines 74-82: the attachments of the payload.
attachments(text, mention) ==
  IF mention = NoMention THEN NoAtt
  ELSE LET tag == <<"@">> \o NameChars(mention.name)
           start == find(text, tag)
       IN IF start # -1
          THEN [user_ids |-> <<mention.user_id>>, loci |-> <<<<start, Len(tag)>>>>]
          ELSE NoAtt

\* ------------------------------------------------------------------ threads
IdleT(p) ==
  [pc |-> p, op |-> "none", user_id |-> "", name |-> "", q |-> <<>>,
   off |-> 0, fd |-> "none", out |-> NoMsg, att |-> NoAtt, res |-> "none"]

IdlePc(t) == IF t = Sched THEN "sleep" ELSE "idle"

\* The queue a handler writes back, from what it loaded.
NewQ(l) ==
  CASE l.op = "signup" -> signup_q(l.q, l.user_id, l.name)
    [] l.op = "signout" -> signout_q(l.q, l.user_id)
    [] l.op = "ping" -> daily_ping_q(l.q)
    [] OTHER -> l.q

\* An exception leaves the handler: Flask answers 500 and the request thread
\* lives on; in the scheduler thread it ends the while-True loop.
Raise(t, l, why) ==
  IF t = Sched
  THEN [l EXCEPT !.pc = "dead", !.res = why, !.fd = "none"]
  ELSE [l EXCEPT !.pc = "done", !.res = why, !.fd = "none"]

\* The handler returns normally.
Finish(t, l) ==
  IF t = Sched
  THEN [l EXCEPT !.pc = "resched", !.res = "ok", !.fd = "none"]
  ELSE [l EXCEPT !.pc = "done", !.res = "ok", !.fd = "none"]

Quiescent ==
  /\ \A w \in Workers : th[w].pc = "idle"
  /\ th[Sched].pc \in {"sleep", "dead"}

\* ----------------------------------------------------------------- webhook
\* sender_type of an inbound event: a chat member, a bot, or GroupMe itself.
SenderTypes == {"user", "bot", "system"}

\* A message text is a sequence of characters.
Whitespace == {" ", "\t", "\n"}
Uppercase == <<"E", "G", "H", "I", "L", "N", "O", "P", "Q", "S", "T", "U">>
Lowercase == <<"e", "g", "h", "i", "l", "n", "o", "p", "q", "s", "t", "u">>

SIGNUP == <<"!", "s", "i", "g", "n", "u", "p">>
SIGNOUT == <<"!", "s", "i", "g", "n", "o", "u", "t">>
QUEUE == <<"!", "q", "u", "e", "u", "e">>
HELP == <<"!", "h", "e", "l", "p">>

\* The texts chat members and bots send: the commands, commands in other case
\* and inside whitespace, and texts that are no command.
Texts ==
  {SIGNUP, SIGNOUT, QUEUE, HELP,
   <<" ", "!", "S", "i", "g", "n", "U", "p", " ">>,
   <<"!", "Q", "U", "E", "U", "E", "\n">>,
   <<"\t", "!", "s", "i", "g", "n", "o", "u", "t">>,
   <<>>,
   <<" ", " ">>,
   <<"h", "i">>,
   <<"s", "i", "g", "n", "u", "p">>,
   <<"!", " ", "h", "e", "l", "p">>,
   <<"!", "s", "i", "g", "n", "u", "p", " ", "m", "e">>,
   <<"!", "h", "e", "l", "p", "!">>}

\* str.strip(): leading and trailing whitespace is removed.
RECURSIVE lstrip(_)
lstrip(s) == IF s # <<>> /\ Head(s) \in Whitespace THEN lstrip(Tail(s)) ELSE s

RECURSIVE rstrip(_)
rstrip(s) ==
  IF s # <<>> /\ s[Len(s)] \in Whitespace THEN rstrip(SubSeq(s, 1, Len(s) - 1)) ELSE s

strip(s) == rstrip(lstrip(s))

\* str.lower(): every cased character is replaced by its lowercase.
lower_char(c) ==
  IF \E i \in 1 .. Len(Uppercase) : Uppercase[i] = c
  THEN Lowercase[CHOOSE i \in 1 .. Len(Uppercase) : Uppercase[i] = c]
  ELSE c

lower(s) == [i \in 1 .. Len(s) |-> lower_char(s[i])]

\* Mutant of strip_lower: the text is trimmed but matched case-sensitively.
strip_only(text) == strip(text)

\* (data.get("text") or "").strip().lower()
strip_lower(text) == lower(strip(text))

\* callback(): the sender_type filter and the match on the text.
callback(t, sender_type, text, sender_id, nm) ==
  /\ t \in Workers
  /\ th[t].pc = "idle"
  /\ LET cmd == strip_lower(text)
         l == [IdleT("idle") EXCEPT !.user_id = sender_id, !.name = nm]
     IN th' = [th EXCEPT ![t] =
          IF sender_type # "user" THEN [l EXCEPT !.pc = "done", !.res = "ok"]
          ELSE CASE cmd = SIGNUP -> [l EXCEPT !.pc = "load", !.op = "signup"]
                 [] cmd = SIGNOUT -> [l EXCEPT !.pc = "load", !.op = "signout"]
                 [] cmd = QUEUE -> [l EXCEPT !.pc = "load", !.op = "queue"]
                 [] cmd = HELP -> [l EXCEPT !.pc = "post", !.op = "help"]
                 [] OTHER -> [l EXCEPT !.pc = "done", !.res = "ok"]]
  /\ UNCHANGED <<queue_file, tmp_file, now, next_run, fires>>

\* return "OK", 200 (or the 500 Flask makes of an exception).
callback_return(t) ==
  /\ t \in Workers
  /\ th[t].pc = "done"
  /\ th' = [th EXCEPT ![t] = IdleT("idle")]
  /\ UNCHANGED <<queue_file, tmp_file, now, next_run, fires>>

\* ------------------------------------------------------------- persistence
\* Mutant of AfterLoad: _daily_ping without its "if not q: return", so that
\* q.pop(0) raises IndexError on the empty queue.
AfterLoad_no_empty_check(t, l) ==
  CASE l.op = "signup" ->
         IF Present(l.q, l.user_id) THEN [l EXCEPT !.pc = "post"] ELSE [l EXCEPT !.pc = "open"]
    [] l.op = "signout" ->
         IF Len(signout_q(l.q, l.user_id)) = Len(l.q)
         THEN [l EXCEPT !.pc = "post"] ELSE [l EXCEPT !.pc = "open"]
    [] l.op = "ping" ->
         IF l.q = <<>> THEN Raise(t, l, "index_error") ELSE [l EXCEPT !.pc = "post"]
    [] OTHER -> [l EXCEPT !.pc = "post"]

\* Mutant of AfterLoad: _signup without its "already in the queue" check.
AfterLoad_no_dedup(t, l) ==
  CASE l.op = "signup" -> [l EXCEPT !.pc = "open"]
    [] l.op = "signout" ->
         IF Len(signout_q(l.q, l.user_id)) = Len(l.q)
         THEN [l EXCEPT !.pc = "post"] ELSE [l EXCEPT !.pc = "open"]
    [] l.op = "ping" ->
         IF l.q = <<>> THEN Finish(t, l) ELSE [l EXCEPT !.pc = "post"]
    [] OTHER -> [l EXCEPT !.pc = "post"]

\* _load_queue(), and the branch the handler takes on what it loaded.
AfterLoad(t, l) ==
  CASE l.op = "signup" ->
         IF Present(l.q, l.user_id) THEN [l EXCEPT !.pc = "post"] ELSE [l EXCEPT !.pc = "open"]
    [] l.op = "signout" ->
         IF Len(signout_q(l.q, l.user_id)) = Len(l.q)
         THEN [l EXCEPT !.pc = "post"] ELSE [l EXCEPT !.pc = "open"]
    [] l.op = "ping" ->
         IF l.q = <<>> THEN Finish(t, l) ELSE [l EXCEPT !.pc = "post"]
    [] OTHER -> [l EXCEPT !.pc = "post"]

\* Mutant of load_queue: content that does not parse is taken as the empty queue.
load_queue_lenient(t) ==
  /\ th[t].pc = "load"
  /\ th' = [th EXCEPT ![t] =
       IF ~queue_file.exists \/ ~WellFormed(queue_file.data)
       THEN AfterLoad(t, [@ EXCEPT !.q = <<>>])
       ELSE AfterLoad(t, [@ EXCEPT !.q = json_load(queue_file.data)])]
  /\ UNCHANGED <<queue_file, tmp_file, now, next_run, fires>>

\* _load_queue: [] when QUEUE_FILE is missing, else json.load, which raises on
\* content that is no JSON document; then the handler's branch on the queue.
load_queue(t) ==
  /\ th[t].pc = "load"
  /\ th' = [th EXCEPT ![t] =
       IF ~queue_file.exists THEN AfterLoad(t, [@ EXCEPT !.q = <<>>])
       ELSE IF ~WellFormed(queue_file.data) THEN Raise(t, @, "load_error")
       ELSE AfterLoad(t, [@ EXCEPT !.q = json_load(queue_file.data)])]
  /\ UNCHANGED <<queue_file, tmp_file, now, next_run, fires>>

\* _save_queue, line 64: tmp.open("w") creates or truncates the temporary file.
save_open(t) ==
  /\ th[t].pc = "open"
  /\ tmp_file' = File(<<>>)
  /\ th' = [th EXCEPT ![t] = [@ EXCEPT !.pc = "write", !.off = 0, !.fd = "tmp"]]
  /\ UNCHANGED <<queue_file, now, next_run, fires>>

\* The file a descriptor writes to after the renames made since it was opened.
WrittenTo(f, fd, which, off, chunk) ==
  IF fd = which THEN File(WriteAt(f.data, off, chunk)) ELSE f

\* _save_queue, line 65: json.dump reaches the file one buffer flush at a time;
\* a failed write (OSError) leaves the with-block and the handler.
save_write(t) ==
  /\ th[t].pc = "write"
  /\ \E ok \in BOOLEAN :
       LET l == th[t]
           d == json_dump(NewQ(l))
           c == ChunkAt(d, l.off)
       IN IF ok
          THEN /\ tmp_file' = WrittenTo(tmp_file, l.fd, "tmp", l.off, c)
               /\ queue_file' = WrittenTo(queue_file, l.fd, "queue", l.off, c)
               /\ th' = [th EXCEPT ![t] =
                    IF l.off + Len(c) = Len(d)
                    THEN [l EXCEPT !.pc = "replace", !.off = 0, !.fd = "none"]
                    ELSE [l EXCEPT !.off = l.off + Len(c)]]
          ELSE /\ th' = [th EXCEPT ![t] = Raise(t, [l EXCEPT !.off = 0], "save_error")]
               /\ UNCHANGED <<queue_file, tmp_file>>
  /\ UNCHANGED <<now, next_run, fires>>

\* A descriptor follows its file through a rename.
Renamed(fd) ==
  CASE fd = "tmp" -> "queue"
    [] fd = "queue" -> "gone"
    [] OTHER -> fd

AfterSave(t, l) == IF l.op = "ping" THEN Finish(t, l) ELSE [l EXCEPT !.pc = "post"]

\* _save_queue, line 66: tmp.replace(QUEUE_FILE); FileNotFoundError when the
\* temporary file is no longer there.
save_replace(t) ==
  /\ th[t].pc = "replace"
  /\ IF tmp_file.exists
     THEN /\ queue_file' = tmp_file
          /\ tmp_file' = Missing
          /\ th' = [u \in Threads |->
               IF u = t THEN AfterSave(t, th[t])
               ELSE [th[u] EXCEPT !.fd = Renamed(@)]]
     ELSE /\ th' = [th EXCEPT ![t] = Raise(t, @, "save_error")]
          /\ UNCHANGED <<queue_file, tmp_file>>
  /\ UNCHANGED <<now, next_run, fires>>

\* ------------------------------------------------------------------- _post
\* The text each handler composes, and the mention _daily_ping passes.
Composed(l) ==
  CASE l.op = "signup" ->
         IF Present(l.q, l.user_id) THEN Msg("already", <<l.name>>, "")
         ELSE Msg("joined", <<l.name>>, "")
    [] l.op = "signout" ->
         IF Len(signout_q(l.q, l.user_id)) = Len(l.q) THEN Msg("not_in_queue", <<l.name>>, "")
         ELSE Msg("left", <<l.name>>, "")
    [] l.op = "queue" ->
         IF l.q = <<>> THEN Msg("empty", <<>>, "") ELSE Msg("listing", Listing(l.q), "")
    [] l.op = "help" -> Msg("help", <<>>, "")
    [] l.op = "ping" -> Msg("turn", <<Head(l.q).name>>, Head(l.q).user_id)
    [] OTHER -> NoMsg

\* The attachments _post builds for the handler's call: only _daily_ping passes
\* a mention.
Attached(l) ==
  IF l.op = "ping" THEN attachments(TurnText(Head(l.q)), Head(l.q))
  ELSE attachments(<<>>, NoMention)

AfterPost(t, l) == IF l.op = "ping" THEN [l EXCEPT !.pc = "open"] ELSE Finish(t, l)

\* requests.post + raise_for_status: delivered, or an exception.
post(t) ==
  /\ th[t].pc = "post"
  /\ \E delivered \in BOOLEAN :
       th' = [th EXCEPT ![t] =
         IF delivered
         THEN AfterPost(t, [th[t] EXCEPT !.out = Composed(th[t]), !.att = Attached(th[t])])
         ELSE Raise(t, th[t], "post_error")]
  /\ UNCHANGED <<queue_file, tmp_file, now, next_run, fires>>

\* --------------------------------------------------------------- scheduler
\* Mutant of NextRunAfter: today's PING_AT even when it has passed.
NextRunAfter_today(t) == IF AtOrAfterPing(t) THEN t ELSE t + 1

\* schedule's next_run for every().day.at(PING_AT), computed at clock value t:
\* today's PING_AT when that is still ahead, else tomorrow's.
NextRunAfter(t) == IF AtOrAfterPing(t) THEN t + 2 ELSE t + 1

\* schedule.run_pending(): the job runs when now >= next_run.
run_pending ==
  /\ th[Sched].pc = "sleep"
  /\ IF now >= next_run
     THEN /\ th' = [th EXCEPT ![Sched] = [IdleT("load") EXCEPT !.op = "ping"]]
          /\ fires' = IF AtOrAfterPing(now) THEN [fires EXCEPT !.post = @ + 1]
                                            ELSE [fires EXCEPT !.pre = @ + 1]
     ELSE UNCHANGED <<th, fires>>
  /\ UNCHANGED <<queue_file, tmp_file, now, next_run>>

\* Job.run after job_func returned: last_run = now; _schedule_next_run().
reschedule ==
  /\ th[Sched].pc = "resched"
  /\ next_run' = NextRunAfter(now)
  /\ th' = [th EXCEPT ![Sched] = IdleT("sleep")]
  /\ UNCHANGED <<queue_file, tmp_file, now, fires>>

NoFires == [pre |-> 0, post |-> 0]

\* Time passes; the day's count starts over at midnight. While the scheduler
\* thread sleeps in its loop it wakes every 15 seconds, so a job that is due is
\* run before the clock reaches the next half-day.
Tick ==
  /\ now < MaxNow
  /\ ~(th[Sched].pc = "sleep" /\ now >= next_run)
  /\ now' = now + 1
  /\ fires' = IF AtOrAfterPing(now) THEN NoFires ELSE fires
  /\ UNCHANGED <<queue_file, tmp_file, th, next_run>>

\* The process is killed and started again (__main__): every thread starts
\* over, the job is scheduled anew, the files stay as they are.
Started == [t \in Threads |-> IdleT(IdlePc(t))]

Restart ==
  /\ th' = Started
  /\ next_run' = NextRunAfter(now)
  /\ UNCHANGED <<queue_file, tmp_file, now, fires>>

\* ---------------------------------------------------------- specifications
\* The process starts on day 0, before or after PING_AT, with the queue file
\* missing or holding the empty queue.
Init ==
  /\ queue_file \in {Missing, File(json_dump(<<>>))}
  /\ tmp_file = Missing
  /\ th = Started
  /\ now \in {0, 1}
  /\ next_run = NextRunAfter(now)
  /\ fires = NoFires
  /\ nreq = 0
  /\ hist = <<>>

\* One step of a handler that is under way.
Step(t) ==
  \/ load_queue(t)
  \/ save_open(t)
  \/ save_write(t)
  \/ save_replace(t)
  \/ post(t)

Request(t) ==
  \E st \in SenderTypes, text \in Texts, u \in Users : \E n \in NamesOf(u) : callback(t, st, text, u, n)

WorkersIdle == \A w \in Workers : th[w].pc = "idle"

\* The scheduler thread beside the request threads, chat messages arriving one
\* at a time: a request handler and the daily ping interleave at every file and
\* network operation.
Next ==
  \/ \E t \in Workers :
       WorkersIdle /\ nreq < MaxRequests /\ Request(t) /\ nreq' = nreq + 1 /\ UNCHANGED hist
  \/ \E t \in Workers : callback_return(t) /\ UNCHANGED <<nreq, hist>>
  \/ \E t \in Threads : Step(t) /\ UNCHANGED <<nreq, hist>>
  \/ run_pending /\ UNCHANGED <<nreq, hist>>
  \/ reschedule /\ UNCHANGED <<nreq, hist>>
  \/ Tick /\ UNCHANGED <<nreq, hist>>

Spec == Init /\ [][Next]_vars

\* Flask's threaded server between two pings: chat messages arriving together
\* are handled on request threads that interleave at every file and network
\* operation.
WebhooksNext ==
  \/ \E t \in Workers : nreq < MaxRequests /\ Request(t) /\ nreq' = nreq + 1 /\ UNCHANGED hist
  \/ \E t \in Workers : callback_return(t) /\ UNCHANGED <<nreq, hist>>
  \/ \E t \in Workers : Step(t) /\ UNCHANGED <<nreq, hist>>

SpecWebhooks == Init /\ [][WebhooksNext]_vars

\* One operation at a time: a request or a scheduler check starts only when no
\* handler is under way. The process may be killed and restarted at any point.
SerialNext ==
  \/ \E t \in Workers : Quiescent /\ Request(t) /\ UNCHANGED <<nreq, hist>>
  \/ \E t \in Workers : callback_return(t) /\ UNCHANGED <<nreq, hist>>
  \/ \E t \in Threads : Step(t) /\ UNCHANGED <<nreq, hist>>
  \/ Quiescent /\ run_pending /\ UNCHANGED <<nreq, hist>>
  \/ reschedule /\ UNCHANGED <<nreq, hist>>
  \/ Tick /\ UNCHANGED <<nreq, hist>>
  \/ Restart /\ UNCHANGED <<nreq, hist>>

SpecSerial == Init /\ [][SerialNext]_vars

\* Chat commands only, one at a time, with the history of the signup and
\* signout calls that were not aborted by a storage error.
Counted(l) == l.op \in {"signup", "signout"} /\ l.res \notin {"load_error", "save_error"}

CmdsNext ==
  \/ \E t \in Workers : Quiescent /\ nreq < MaxRequests /\ Request(t) /\ nreq' = nreq + 1 /\ UNCHANGED hist
  \/ \E t \in Workers :
       /\ callback_return(t)
       /\ hist' = IF Counted(th[t])
                  THEN Append(hist, [op |-> th[t].op, user_id |-> th[t].user_id])
                  ELSE hist
       /\ UNCHANGED nreq
  \/ \E t \in Workers : Step(t) /\ UNCHANGED <<nreq, hist>>

SpecCmds == Init /\ [][CmdsNext]_vars

\* The scheduler and chat commands, one operation at a time, with the history of
\* the rotation: every "your turn" message sent (with the identities of the
\* queue it was sent from), every rotation saved, every signout saved.
Ids(q) == [i \in 1 .. Len(q) |-> q[i].user_id]

Event(op, u, ids) == [op |-> op, user_id |-> u, q |-> ids]

\* What a step of thread t adds to the history.
Recorded(t, l, m) ==
  IF l.op = "ping" /\ l.pc = "post" /\ m.pc = "open"
  THEN <<Event("turn", Head(l.q).user_id, Ids(l.q))>>
  ELSE IF l.op = "ping" /\ l.pc = "replace" /\ m.pc = "resched"
  THEN <<Event("rotated", "", <<>>)>>
  ELSE IF l.op = "signout" /\ l.pc = "replace" /\ m.pc = "post"
  THEN <<Event("signout", l.user_id, <<>>)>>
  ELSE <<>>

RotationNext ==
  \/ \E t \in Workers :
       Quiescent /\ nreq < MaxRequests /\ Request(t) /\ nreq' = nreq + 1 /\ UNCHANGED hist
  \/ \E t \in Workers : callback_return(t) /\ UNCHANGED <<nreq, hist>>
  \/ \E t \in Threads :
       Step(t) /\ hist' = hist \o Recorded(t, th[t], th'[t]) /\ UNCHANGED nreq
  \/ Quiescent /\ run_pending /\ UNCHANGED <<nreq, hist>>
  \/ reschedule /\ UNCHANGED <<nreq, hist>>
  \/ Tick /\ UNCHANGED <<nreq, hist>>
  \/ Restart /\ UNCHANGED <<nreq, hist>>

SpecRotation == Init /\ [][RotationNext]_vars

\* The process starts on a queue file left by an earlier run: missing, or cut
\* short or torn by an interrupted or overlapping save (an empty file, a dump
\* without its end, a hole of nul bytes, a dump followed by the rest of another).
StoredFiles ==
  {Missing,
   File(<<>>),
   File(<<OpenTok, ObjTok(Entry("u1", "Ann"))>>),
   File(<<OpenTok, NulTok, CloseTok>>),
   File(<<OpenTok, CloseTok, CloseTok>>)}

InitStored ==
  /\ queue_file \in StoredFiles
  /\ tmp_file = Missing
  /\ th = Started
  /\ now \in {0, 1}
  /\ next_run = NextRunAfter(now)
  /\ fires = NoFires
  /\ nreq = 0
  /\ hist = <<>>

\* One operation at a time, from any of these files.
SpecStored == InitStored /\ [][SerialNext]_vars

\* ------------------------------------------------------------------ claims
NoDuplicate(d) ==
  \A i, j \in 1 .. Len(d) :
    (i # j /\ d[i].kind = "obj" /\ d[j].kind = "obj") => d[i].user_id # d[j].user_id

\* C1: in every reachable state the persisted queue holds no two entries with
\* the same user_id.
C1_NoDuplicateIdentity == queue_file.exists => NoDuplicate(queue_file.data)

\* A signup that returned normally after posting "joined".
Joined(l) == l.pc = "done" /\ l.op = "signup" /\ l.res = "ok" /\ l.out.kind = "joined"

EntryOf(l) == Entry(l.user_id, l.name)

\* C2: two signups handled concurrently leave the queue that one of their two
\* serial orders leaves (here: the only two requests so far, by different users,
\* both answered "joined", from the empty queue): no update is lost.
C2_ConcurrentSignupsBothPersist ==
  \A v, w \in Workers :
    (/\ v # w
     /\ nreq = 2
     /\ Joined(th[v]) /\ Joined(th[w])
     /\ th[v].user_id # th[w].user_id)
    => /\ queue_file.exists
       /\ queue_file.data \in {json_dump(<<EntryOf(th[v]), EntryOf(th[w])>>),
                               json_dump(<<EntryOf(th[w]), EntryOf(th[v])>>)}

\* The persisted queue is q (a missing file is the empty queue).
StoredIs(q) ==
  IF queue_file.exists THEN queue_file.data = json_dump(q) ELSE q = <<>>

\* A handler of a chat command that ran to its end (not yet returned).
Done(l, op) == l.pc = "done" /\ l.op = op

\* C3: signup alone on queue q: an identity already in q leaves the queue q and
\* is answered "already queued"; otherwise the entry {identity, display_name}
\* is appended at the back and the answer is "joined".
C3_SignupAppendsOnce ==
  \A w \in Workers :
    LET l == th[w] IN
    (Done(l, "signup") /\ l.res # "save_error") =>
      IF \E i \in 1 .. Len(l.q) : l.q[i].user_id = l.user_id
      THEN StoredIs(l.q) /\ (l.res = "ok" => l.out = Msg("already", <<l.name>>, ""))
      ELSE /\ StoredIs(l.q \o <<[user_id |-> l.user_id, name |-> l.name]>>)
           /\ (l.res = "ok" => l.out = Msg("joined", <<l.name>>, ""))

C3_Witness ==
  \E w \in Workers :
    /\ Done(th[w], "signup") /\ th[w].res = "ok"
    /\ th[w].out.kind = "joined"
    /\ Len(th[w].q) >= 1
    /\ queue_file.exists /\ Len(queue_file.data) = Len(th[w].q) + 3

\* q without its k-th entry.
RemovedAt(q, k) == [i \in 1 .. Len(q) - 1 |-> IF i < k THEN q[i] ELSE q[i + 1]]

\* C4: signout alone on queue q: the entry of the identity is removed and the
\* others keep their order, answered "left"; with no such entry the queue stays
\* q and the answer is "not in queue".
C4_SignoutRemovesEntry ==
  \A w \in Workers :
    LET l == th[w] IN
    (Done(l, "signout") /\ l.res # "save_error") =>
      IF \E i \in 1 .. Len(l.q) : l.q[i].user_id = l.user_id
      THEN /\ \E k \in 1 .. Len(l.q) :
                l.q[k].user_id = l.user_id /\ StoredIs(RemovedAt(l.q, k))
           /\ (l.res = "ok" => l.out = Msg("left", <<l.name>>, ""))
      ELSE StoredIs(l.q) /\ (l.res = "ok" => l.out = Msg("not_in_queue", <<l.name>>, ""))

C4_Witness ==
  \E w \in Workers :
    /\ Done(th[w], "signout") /\ th[w].res = "ok"
    /\ th[w].out.kind = "left"
    /\ Len(th[w].q) = 2
    /\ th[w].q[1].user_id = th[w].user_id
    /\ queue_file.data = json_dump(<<th[w].q[2]>>)

\* q turned left by one place.
RotatedLeft(q) == [i \in 1 .. Len(q) |-> IF i < Len(q) THEN q[i + 1] ELSE q[1]]

\* _daily_ping returned to the scheduler loop.
PingReturned == th[Sched].pc = "resched" /\ th[Sched].op = "ping"

\* C5: a rotation of a non-empty queue q that completes leaves q turned left by
\* one place (same entries, the former front at the back) and announces the
\* former front entry of q.
C5_RotateLeftByOne ==
  LET l == th[Sched] IN
  (PingReturned /\ l.q # <<>>) =>
    /\ StoredIs(RotatedLeft(l.q))
    /\ l.out = Msg("turn", <<l.q[1].name>>, l.q[1].user_id)

C5_Witness ==
  /\ PingReturned
  /\ Len(th[Sched].q) = 2
  /\ queue_file.data = json_dump(<<th[Sched].q[2], th[Sched].q[1]>>)

\* The queue file is missing or holds the empty queue.
StoredEmpty == ~queue_file.exists \/ queue_file.data = json_dump(<<>>)

\* C6: a rotation of the empty queue (or with no queue file) writes no file,
\* sends no message and raises nothing.
C6_RotateEmptyIsSilent ==
  [][(load_queue(Sched) /\ StoredEmpty) =>
       /\ th'[Sched].pc = "resched"
       /\ th'[Sched].res = "ok"
       /\ th'[Sched].out = NoMsg
       /\ UNCHANGED <<queue_file, tmp_file>>]_vars

C6_Witness == PingReturned /\ th[Sched].q = <<>> /\ ~queue_file.exists

\* ---- C7: the queue after a sequence of signup and signout calls ----
CountOf(op, u) == Cardinality({i \in 1 .. Len(hist) : hist[i] = [op |-> op, user_id |-> u]})

NetCount(u) == CountOf("signup", u) - CountOf("signout", u)

StoredQueue == IF queue_file.exists THEN json_load(queue_file.data) ELSE <<>>

StoredIds == {StoredQueue[i].user_id : i \in 1 .. Len(StoredQueue)}

\* Position in hist of the latest signout of u (0: none), and of the signup
\* that put u into the queue: the first one after that signout (0: none).
LastSignout(u) ==
  LET S == {i \in 1 .. Len(hist) : hist[i] = [op |-> "signout", user_id |-> u]}
  IN IF S = {} THEN 0 ELSE CHOOSE i \in S : \A j \in S : j <= i

JoinedAt(u) ==
  LET S == {i \in 1 .. Len(hist) : i > LastSignout(u) /\ hist[i] = [op |-> "signup", user_id |-> u]}
  IN IF S = {} THEN 0 ELSE CHOOSE i \in S : \A j \in S : i <= j

InJoinOrder(q) ==
  \A i, j \in 1 .. Len(q) : i < j => JoinedAt(q[i].user_id) < JoinedAt(q[j].user_id)

\* C7 as stated: after any sequence of signup and signout calls the queue holds
\* exactly the identities with more signups than signouts, each once, in the
\* order of their signups.
C7_NetPositiveCount ==
  WorkersIdle =>
    /\ StoredIds = {u \in Users : NetCount(u) > 0}
    /\ Cardinality(StoredIds) = Len(StoredQueue)
    /\ InJoinOrder(StoredQueue)

\* C7 as amended: the queue holds exactly the identities whose latest call is a
\* signup, each once, in the order of the signups that put them in.
C7_LatestCallIsSignup ==
  WorkersIdle =>
    /\ StoredIds = {u \in Users : JoinedAt(u) > 0}
    /\ Cardinality(StoredIds) = Len(StoredQueue)
    /\ InJoinOrder(StoredQueue)

C7_Witness ==
  /\ WorkersIdle
  /\ Len(hist) = 3
  /\ Len(StoredQueue) = 2
  /\ \E u \in Users : CountOf("signout", u) = 1 /\ StoredQueue[2].user_id = u

\* ---- the scheduler ----
FiredToday == fires.pre + fires.post

\* C8: the rotation is invoked at most once per calendar day, however many
\* checks run at or after PING_AT that day and across restarts that day.
C8_AtMostOncePerDay == FiredToday <= 1

\* The day's rotation has run, and the scheduler is polling again on that day.
C8_Witness ==
  /\ fires.post = 1
  /\ AtOrAfterPing(now)
  /\ th[Sched].pc = "sleep"
  /\ now < next_run

\* C9: on a day whose rotation has not been invoked yet, a scheduler check made
\* at or after PING_AT invokes it (run_pending runs the job when
\* now >= next_run), also when the process was started after PING_AT.
C9_CheckAfterPingFires ==
  (th[Sched].pc = "sleep" /\ AtOrAfterPing(now) /\ FiredToday = 0) => now >= next_run

\* C10: what a load reads from the queue file is always a completely written
\* queue, never a partial or mixed one.
C10_QueueFileAlwaysComplete == queue_file.exists => WellFormed(queue_file.data)

\* ---- failures ----
\* The handler takes its mutating branch on the queue it loaded.
Mutates(l) ==
  \/ l.op = "signup" /\ ~Present(l.q, l.user_id)
  \/ l.op = "signout" /\ Present(l.q, l.user_id)
  \/ l.op = "ping" /\ l.q # <<>>

SuccessKinds == {"joined", "left", "turn"}

\* C11: when the store write of a signup, signout or rotation fails, no
\* "joined", "left" or "your turn" message has been sent for that operation and
\* the persisted queue is still the queue the operation loaded.
C11_FailedWriteReportsNoSuccess ==
  [][\A t \in Threads :
       (th[t].res = "none" /\ th'[t].res = "save_error") =>
         /\ th'[t].out.kind \notin SuccessKinds
         /\ StoredIs(th[t].q)']_vars

\* C12: a failed send does not undo or prevent the queue mutation of a signup,
\* signout or rotation: once the operation has ended on the failed send, the
\* persisted queue is the one it ends with when the send succeeds.
C12_FailedSendKeepsMutation ==
  [][\A t \in Threads :
       (th[t].res = "none" /\ th'[t].res = "post_error" /\ Mutates(th[t])) =>
         StoredIs(NewQ(th[t]))']_vars

\* A handler left by an exception.
Failed(l) == l.res \in {"load_error", "save_error", "post_error"}

\* C13: a failed operation does not stop later triggers: after a failed command
\* the request thread returns and takes later commands, and after a failed
\* rotation the scheduler thread is still in its loop.
C13_FailureStopsNothing ==
  \A t \in Threads :
    Failed(th[t]) => th[t].pc = (IF t = Sched THEN "resched" ELSE "done")

\* ---- dispatch ----
Commands == {SIGNUP, SIGNOUT, QUEUE, HELP}

\* c is cmd up to the case of its letters.
SameButCase(c, cmd) ==
  /\ Len(c) = Len(cmd)
  /\ \A k \in 1 .. Len(c) :
       \/ c[k] = cmd[k]
       \/ \E a \in 1 .. Len(Uppercase) : c[k] = Uppercase[a] /\ cmd[k] = Lowercase[a]

\* The text is a command inside leading and trailing whitespace, in any case.
IsCommandText(text) ==
  \E i, j \in 0 .. Len(text) :
    /\ i <= j
    /\ \A k \in 1 .. i : text[k] \in Whitespace
    /\ \A k \in j + 1 .. Len(text) : text[k] \in Whitespace
    /\ \E cmd \in Commands : SameButCase(SubSeq(text, i + 1, j), cmd)

\* The handler of an inbound event that was not acted on.
Ignored(l) == l.pc = "done" /\ l.op = "none"

\* C14: an inbound event is acted on only if its sender_type is "user" and its
\* text, trimmed and lower-cased, is one of !signup, !signout, !queue, !help;
\* every other event sends no message and leaves the persisted queue unchanged.
C14_OnlyUserCommandsAct ==
  /\ [](\A w \in Workers : th[w].op = "none" => th[w].out = NoMsg)
  /\ [][\A w \in Workers :
         (th[w].pc = "idle" /\ th'[w].pc # "idle") =>
           \A st \in SenderTypes, text \in Texts :
             callback(w, st, text, th'[w].user_id, th'[w].name) =>
               IF st = "user" /\ IsCommandText(text)
               THEN th'[w].op # "none"
               ELSE Ignored(th'[w]) /\ UNCHANGED <<queue_file, tmp_file>>]_vars
  /\ [][\A w \in Workers :
         Ignored(th[w]) => th'[w].pc = "idle" /\ UNCHANGED <<queue_file, tmp_file>>]_vars

\* An event was ignored while the queue holds an entry.
C14_Witness ==
  \E w \in Workers :
    /\ Ignored(th[w])
    /\ th[w].out = NoMsg
    /\ queue_file.exists /\ Len(queue_file.data) = 3

\* ---- list ----
\* C15: !queue (and !help) never writes the store; on a non-empty queue the
\* listing holds the stored display names front to back, and on the empty queue
\* the reply is the distinct "empty" message, not an error.
C15_ListIsPureRead ==
  /\ [](\A w \in Workers :
         LET l == th[w] IN
         Done(l, "queue") =>
           /\ StoredIs(l.q)
           /\ l.res \in {"ok", "post_error"}
           /\ l.res = "ok" =>
                l.out = IF Len(l.q) = 0
                        THEN Msg("empty", <<>>, "")
                        ELSE Msg("listing", [i \in 1 .. Len(l.q) |-> l.q[i].name], ""))
  /\ [][\A w \in Workers :
         th[w].op \in {"queue", "help"} => UNCHANGED <<queue_file, tmp_file>>]_vars

C15_Witness ==
  \E w \in Workers :
    /\ Done(th[w], "queue") /\ th[w].res = "ok"
    /\ queue_file.exists /\ Len(queue_file.data) = 4
    /\ th[w].out.kind = "listing"
    /\ th[w].out.names = <<queue_file.data[2].name, queue_file.data[3].name>>

\* ---- order of save and send ----
\* C16: the "joined", "left" or "your turn" message of an operation is sent only
\* after that operation's save has completed: in the step that sends it, the
\* queue file already holds the mutated queue.
C16_MessageAfterSave ==
  [][\A t \in Threads :
       (th[t].out = NoMsg /\ th'[t].out.kind \in SuccessKinds) =>
         StoredIs(NewQ(th[t]))]_vars

\* ---- malformed storage ----
\* The queue file holds content that json.load rejects.
Malformed == queue_file.exists /\ ~WellFormed(queue_file.data)

C18_SignupStoresLatestName ==
  \A w \in Workers :
    (Done(th[w], "signup") /\ th[w].res = "ok") =>
      \E i \in 1 .. Len(StoredQueue) : StoredQueue[i] = Entry(th[w].user_id, th[w].name)

\* ---- mentions ----
\* tag occurs in text at 0-based offset o.
OccursAt(text, tag, o) == o + Len(tag) <= Len(text) /\ SubSeq(text, o + 1, o + Len(tag)) = tag

\* What the claim asks of the attachments of a message text sent with a mention
\* of entry e: none when "@name" does not occur, else the identity of e with
\* the locus [first offset of "@name", its length].
MentionOf(text, e) ==
  LET tag == <<"@">> \o NameChars(e.name)
      O == {o \in 0 .. Len(text) : OccursAt(text, tag, o)}
  IN IF O = {} THEN NoAtt
     ELSE [user_ids |-> <<e.user_id>>,
           loci |-> <<<<CHOOSE o \in O : \A p \in O : o <= p, Len(NameChars(e.name)) + 1>>>>]

\* Texts _post may be given with the mention of e: the rotation's text, a text
\* without the tag, and texts that hold the tag twice or not at the front.
PostTexts(e) ==
  LET tag == <<"@">> \o NameChars(e.name)
  IN {TurnText(e), TurnTail, TurnTail \o tag, tag \o TurnTail \o tag, <<"@">> \o tag \o tag}

\* C19: only the rotation notification carries a mention; it tags the identity
\* of the entry taken from the front, at the locus [offset of the first "@name"
\* in the text, length of "@name"]; a text without "@name" gets no mention.
C19_MentionOnlyOnRotation ==
  /\ \A t \in Threads : th[t].op # "ping" => th[t].att = NoAtt
  /\ (th[Sched].op = "ping" /\ th[Sched].out # NoMsg) =>
       LET e == th[Sched].q[1] IN
       /\ th[Sched].att = MentionOf(TurnText(e), e)
       /\ th[Sched].att.user_ids = <<e.user_id>>
       /\ th[Sched].pc = "open" =>
            \A text \in PostTexts(e) : attachments(text, e) = MentionOf(text, e)

C19_Witness ==
  /\ PingReturned
  /\ Len(th[Sched].q) = 2
  /\ th[Sched].q[1] = Entry("u1", "Annie")
  /\ th[Sched].att = [user_ids |-> <<"u1">>, loci |-> <<<<0, 6>>>>]

\* ---- fairness of the rotation ----
\* Positions in hist of the announcements, and of those whose rotation was saved.
Announcements == {i \in 1 .. Len(hist) : hist[i].op = "turn"}

Rotations == {i \in Announcements : i < Len(hist) /\ hist[i + 1].op = "rotated"}

NoSignoutOf(x, i, j) ==
  \A m \in i .. j : ~(hist[m].op = "signout" /\ hist[m].user_id = x)

\* The number of successful rotations from the i-th event to the j-th.
RotationsIn(i, j) == Cardinality({m \in Rotations : i <= m /\ m <= j})

\* A participant at 0-based position k of the queue who does not sign out is
\* announced by the (k+1)-th successful rotation from then on at the latest.
AnnouncedInTime ==
  \A i \in Rotations : \A k \in 0 .. Len(hist[i].q) - 1 :
    LET x == hist[i].q[k + 1] IN
    \A j \in Rotations :
      (j >= i /\ RotationsIn(i, j) = k + 1 /\ NoSignoutOf(x, i, j)) =>
        \E m \in Rotations : i <= m /\ m <= j /\ hist[m].user_id = x

\* Nobody is announced twice while a participant who was queued at the first of
\* the two announcements, and did not sign out, has not been announced.
NobodyTwiceBeforeOnce ==
  \A i, j \in Announcements :
    (i < j /\ hist[i].user_id = hist[j].user_id) =>
      \A k \in 1 .. Len(hist[i].q) :
        LET x == hist[i].q[k] IN
        (x # hist[i].user_id /\ NoSignoutOf(x, i, j)) =>
          \E m \in Announcements : i < m /\ m < j /\ hist[m].user_id = x

\* C20: under serial execution a participant at position k who does not sign
\* out is announced by the (k+1)-th subsequent successful rotation, whatever
\* others sign up or out, and no other participant is announced twice before
\* that participant is announced once.
C20_RotationStarvationFree == AnnouncedInTime /\ NobodyTwiceBeforeOnce

====
